---- MODULE Spec2Model ----
(***************************************************************************)
(* Captcha resolution chain of sonata-mcp-server: CircuitBreaker           *)
(* (src/src/captcha/circuit_breaker.py) and CaptchaSolverHandler /         *)
(* CaptchaChain (src/src/captcha/chain.py).                                *)
(*                                                                         *)
(* Coroutines are the processes Procs.  Each one issues solve requests on  *)
(* the one shared chain.  A step of the model is a piece of a coroutine    *)
(* between two points where the event loop may run another coroutine; the  *)
(* acquisition of a breaker's asyncio.Lock is a step of its own, so that   *)
(* the lock is a visible part of the state.                                *)
(*                                                                         *)
(* Optional values are sequences: <<>> is None, <<v>> is the value v.      *)
(***************************************************************************)
EXTENDS Integers, Sequences, FiniteSets, TLC

\* ------------------------------------------------------------- bounds
NumProcs == 2        \* coroutines calling one breaker concurrently
MaxTime == 3         \* the last instant of the clock, breaker alone
MaxHandlers == 2     \* handlers a chain may hold
MaxRequests == 3     \* solve requests issued on the chain
StatusRequests == 2  \* solve requests issued while a monitor reads the status

Procs == 1..NumProcs
\* the coroutines that issue solve requests on the chain
ChainProcs == {1}

\* ------------------------------------------------------ program values
CLOSED == "closed"
OPEN == "open"
HALF_OPEN == "half_open"
CircuitState == {CLOSED, OPEN, HALF_OPEN}

\* CircuitBreakerConfig with the dataclass defaults for the thresholds (5, 3, 3)
\* and a recovery_timeout of 2 s in place of the default 60 s, so that the
\* recovery of this breaker is within MaxTime
DefaultConfig ==
    [failure_threshold |-> 5, recovery_timeout |-> 2,
     success_threshold |-> 3, max_consecutive_failures |-> 3]

\* the configuration of the unit tests' breaker fixture
TestConfig ==
    [failure_threshold |-> 3, recovery_timeout |-> 1,
     success_threshold |-> 2, max_consecutive_failures |-> 2]

Configs == {DefaultConfig, TestConfig}

\* the configurations add_solver is given
ChainConfigs == {TestConfig}

\* the chain is observed for one recovery timeout
ChainMaxTime == TestConfig.recovery_timeout

\* CircuitBreakerState(): a new breaker's record; last_state_change is
\* datetime.now() at construction
CircuitBreakerState(t) ==
    [state |-> CLOSED, failure_count |-> 0, success_count |-> 0,
     consecutive_failures |-> 0, last_failure_time |-> <<>>,
     last_state_change |-> t]

\* the solver classes and the captcha types each can_handle
SolverClasses == {"CapSolverAI", "TwoCaptchaSolver"}

supported_types(cls) ==
    IF cls = "CapSolverAI"
    THEN {"recaptcha_v2", "recaptcha_v3", "hcaptcha", "image"}
    ELSE {"recaptcha_v2", "recaptcha_v3", "hcaptcha", "image", "text"}

\* mutant of can_handle: every solver claims every kind
can_handle_anything(cls, captcha_type) == cls \in SolverClasses

can_handle(cls, captcha_type) == captcha_type \in supported_types(cls)

\* the captcha types of the requests
CaptchaTypes == {"image", "text"}

\* What a call of ICaptchaSolver.solve may do: raise an Exception, or
\* return an Optional[str]: None, the empty string or a solution token.
SolverToken(cls) ==
    IF cls = "CapSolverAI" THEN "SIMULATED_CAPTCHA_SOLUTION"
    ELSE "SIMULATED_2CAPTCHA_SOLUTION"

SolverErrors == {"Exception"}

\* the functions the unit tests wrap: failing_call raises, successful_call
\* returns "success"
TestOutcomes ==
    {[t |-> "raise", v |-> "Exception"], [t |-> "return", v |-> <<"success">>]}

SolverOutcomes(cls) ==
    {[t |-> "raise", v |-> e] : e \in SolverErrors}
    \cup {[t |-> "return", v |-> r] : r \in {<<>>, <<"">>, <<SolverToken(cls)>>}}

CircuitBreakerOpen == "CircuitBreakerOpen"

\* mutant of Truthy: the test is `is not None`
Truthy_is_not_none(r) == r # <<>>

\* Python truthiness of an Optional[str]: None and "" are falsy
Truthy(r) == r # <<>> /\ r[1] # ""

NoOutcome == [t |-> "none", v |-> <<>>]

\* --------------------------------------------------------------- state
VARIABLES
    now,            \* datetime.now(), in seconds
    first_handler,  \* CaptchaChain._first_handler: 0 is None, else a handler
    handlers,       \* CaptchaChain._handlers: the list of handlers
    next_handler,   \* next_handler[h]: handler h's next_handler, 0 is None
    solver,         \* solver[h]: the class of handler h's solver
    config,         \* config[h]: the config of handler h's breaker
    cb,             \* cb[h]: the CircuitBreakerState of handler h's breaker
    lock,           \* lock[h]: the holder of handler h's breaker lock, 0 if free
    pc,             \* pc[p]: where coroutine p stands
    cur,            \* cur[p]: the handler whose handle() p is executing
    ctype,          \* ctype[p]: captcha_info["type"] of p's request
    func,           \* func[p]: the function p's call() wraps
    fres,           \* fres[p]: what the wrapped function did in p's call()
    callOut,        \* callOut[p]: what p's call() returned or raised
    recorded,       \* recorded[p]: the outcomes p's call() has recorded
    result,         \* result[p]: how p's solve() ended (returned v / raised v)
    log,            \* log[p]: what happened at each handler of p's request
    nreq,           \* the number of solve requests issued so far
    status          \* what the get_status() call made in the last step returned

chainVars == <<first_handler, handlers, next_handler, solver, config>>
procVars == <<pc, cur, ctype, func, fres, callOut, recorded, result, log, nreq>>
vars == <<now, first_handler, handlers, next_handler, solver, config, cb, lock,
          pc, cur, ctype, func, fres, callOut, recorded, result, log, nreq,
          status>>

\* no get_status() call was made in the last step
NoStatus == <<>>

\* the breakers that exist
Breakers == 1..Len(cb)

\* every coroutine idle, no request issued
ProcsInit(f) ==
    /\ pc = [p \in Procs |-> "idle"]
    /\ func = [p \in Procs |-> f]
    /\ nreq = 0
    /\ cur = [p \in Procs |-> 0]
    /\ ctype = [p \in Procs |-> "image"]
    /\ fres = [p \in Procs |-> NoOutcome]
    /\ callOut = [p \in Procs |-> NoOutcome]
    /\ recorded = [p \in Procs |-> <<>>]
    /\ result = [p \in Procs |-> NoOutcome]
    /\ status = NoStatus
    /\ log = [p \in Procs |-> <<>>]

\* CaptchaChain(): an empty chain
InitChain ==
    /\ now = 0
    /\ first_handler = 0
    /\ handlers = <<>>
    /\ next_handler = <<>>
    /\ solver = <<>>
    /\ config = <<>>
    /\ cb = <<>>
    /\ lock = <<>>
    /\ ProcsInit("solve")

\* CircuitBreaker("test_service", config): one breaker on its own, as the
\* unit tests construct it
Init ==
    /\ now = 0
    /\ first_handler = 0
    /\ handlers = <<>>
    /\ next_handler = <<>>
    /\ solver = <<>>
    /\ \E c \in Configs : config = <<c>>
    /\ cb = <<CircuitBreakerState(0)>>
    /\ lock = <<0>>
    /\ ProcsInit("test_call")

\* ---------------------------------------------------------------- time
\* The clock advances; no field of any breaker depends on it until a call reads it.
Tick(last) ==
    /\ now < last
    /\ now' = now + 1
    /\ UNCHANGED <<chainVars, cb, lock, procVars>>
    /\ status' = NoStatus

\* ------------------------------------------------------ CircuitBreaker
\* mutant of transition_to: closing keeps the failure counters
transition_to_keep_failures(s, new_state, t) ==
    LET s1 == [s EXCEPT !.state = new_state, !.last_state_change = t]
    IN  IF new_state = HALF_OPEN
        THEN [s1 EXCEPT !.success_count = 0]
        ELSE s1

\* mutant of transition_to: the success counter is reset on leaving HALF_OPEN
\* for OPEN too
transition_to_reset_on_open(s, new_state, t) ==
    LET s1 == [s EXCEPT !.state = new_state, !.last_state_change = t]
    IN  IF new_state = CLOSED
        THEN [s1 EXCEPT !.failure_count = 0, !.consecutive_failures = 0]
        ELSE [s1 EXCEPT !.success_count = 0]

\* _transition_to(new_state) on the record s at time t
transition_to(s, new_state, t) ==
    LET s1 == [s EXCEPT !.state = new_state, !.last_state_change = t]
    IN  IF new_state = CLOSED
        THEN [s1 EXCEPT !.failure_count = 0, !.consecutive_failures = 0]
        ELSE IF new_state = HALF_OPEN
             THEN [s1 EXCEPT !.success_count = 0]
             ELSE s1

\* mutant of should_attempt_reset: the boundary instant is excluded
should_attempt_reset_strict(s, c, t) ==
    /\ s.last_failure_time # <<>>
    /\ t - s.last_failure_time[1] > c.recovery_timeout

\* _should_attempt_reset(): a failure time is set and the timeout has elapsed
should_attempt_reset(s, c, t) ==
    /\ s.last_failure_time # <<>>
    /\ t - s.last_failure_time[1] >= c.recovery_timeout

\* mutant of record_success: the first success of a trial closes the
\* breaker
record_success_closes_at_once(s, c, t) ==
    LET s1 == [s EXCEPT !.consecutive_failures = 0]
    IN  IF s1.state = HALF_OPEN
        THEN LET s2 == [s1 EXCEPT !.success_count = @ + 1]
             IN  transition_to(s2, CLOSED, t)
        ELSE s1

\* mutant of record_success: the success clears failure_count instead of
\* consecutive_failures
record_success_resets_total(s, c, t) ==
    LET s1 == [s EXCEPT !.failure_count = 0]
    IN  IF s1.state = HALF_OPEN
        THEN LET s2 == [s1 EXCEPT !.success_count = @ + 1]
             IN  IF s2.success_count >= c.success_threshold
                 THEN transition_to(s2, CLOSED, t)
                 ELSE s2
        ELSE s1

\* mutant of record_success: a success also clears failure_count
record_success_forgives(s, c, t) ==
    LET s1 == [s EXCEPT !.consecutive_failures = 0, !.failure_count = 0]
    IN  IF s1.state = HALF_OPEN
        THEN LET s2 == [s1 EXCEPT !.success_count = @ + 1]
             IN  IF s2.success_count >= c.success_threshold
                 THEN transition_to(s2, CLOSED, t)
                 ELSE s2
        ELSE s1

\* the body of _record_success() under the lock
record_success(s, c, t) ==
    LET s1 == [s EXCEPT !.consecutive_failures = 0]
    IN  IF s1.state = HALF_OPEN
        THEN LET s2 == [s1 EXCEPT !.success_count = @ + 1]
             IN  IF s2.success_count >= c.success_threshold
                 THEN transition_to(s2, CLOSED, t)
                 ELSE s2
        ELSE s1

\* mutant of record_failure: the thresholds must be exceeded, not reached
record_failure_exceed(s, c, t) ==
    LET s1 == [s EXCEPT !.failure_count = @ + 1,
                        !.consecutive_failures = @ + 1,
                        !.last_failure_time = <<t>>]
    IN  IF s1.state = CLOSED
        THEN IF \/ s1.failure_count > c.failure_threshold
                \/ s1.consecutive_failures > c.max_consecutive_failures
             THEN transition_to(s1, OPEN, t)
             ELSE s1
        ELSE IF s1.state = HALF_OPEN
             THEN transition_to(s1, OPEN, t)
             ELSE s1

\* mutant of record_failure: failure_count is written from the streak
\* counter, so failures counted before the last success are lost
record_failure_loses_count(s, c, t) ==
    LET s1 == [s EXCEPT !.failure_count = s.consecutive_failures + 1,
                        !.consecutive_failures = @ + 1,
                        !.last_failure_time = <<t>>]
    IN  IF s1.state = CLOSED
        THEN IF \/ s1.failure_count >= c.failure_threshold
                \/ s1.consecutive_failures >= c.max_consecutive_failures
             THEN transition_to(s1, OPEN, t)
             ELSE s1
        ELSE IF s1.state = HALF_OPEN
             THEN transition_to(s1, OPEN, t)
             ELSE s1

\* mutant of record_failure: a HALF_OPEN failure reopens only at a threshold
record_failure_partial_credit(s, c, t) ==
    LET s1 == [s EXCEPT !.failure_count = @ + 1,
                        !.consecutive_failures = @ + 1,
                        !.last_failure_time = <<t>>]
    IN  IF \/ s1.failure_count >= c.failure_threshold
           \/ s1.consecutive_failures >= c.max_consecutive_failures
        THEN IF s1.state = OPEN THEN s1 ELSE transition_to(s1, OPEN, t)
        ELSE s1

\* mutant of record_failure: the thresholds are looked at before the
\* failure is counted
record_failure_checks_first(s, c, t) ==
    LET s1 == [s EXCEPT !.failure_count = @ + 1,
                        !.consecutive_failures = @ + 1,
                        !.last_failure_time = <<t>>]
    IN  IF s.state = CLOSED
        THEN IF \/ s.failure_count >= c.failure_threshold
                \/ s.consecutive_failures >= c.max_consecutive_failures
             THEN transition_to(s1, OPEN, t)
             ELSE s1
        ELSE IF s.state = HALF_OPEN
             THEN transition_to(s1, OPEN, t)
             ELSE s1

\* mutant of record_failure: a failure reported while the breaker is OPEN
\* is dropped
record_failure_drops_late(s, c, t) ==
    LET s1 == [s EXCEPT !.failure_count = @ + 1,
                        !.consecutive_failures = @ + 1,
                        !.last_failure_time = <<t>>]
    IN  IF s.state = CLOSED
        THEN IF \/ s1.failure_count >= c.failure_threshold
                \/ s1.consecutive_failures >= c.max_consecutive_failures
             THEN transition_to(s1, OPEN, t)
             ELSE s1
        ELSE IF s.state = HALF_OPEN
             THEN transition_to(s1, OPEN, t)
             ELSE s

\* mutant of record_failure: the time of the failure is not kept
record_failure_no_stamp(s, c, t) ==
    LET s1 == [s EXCEPT !.failure_count = @ + 1,
                        !.consecutive_failures = @ + 1]
    IN  IF s1.state = CLOSED
        THEN IF \/ s1.failure_count >= c.failure_threshold
                \/ s1.consecutive_failures >= c.max_consecutive_failures
             THEN transition_to(s1, OPEN, t)
             ELSE s1
        ELSE IF s1.state = HALF_OPEN
             THEN transition_to(s1, OPEN, t)
             ELSE s1

\* the body of _record_failure() under the lock
record_failure(s, c, t) ==
    LET s1 == [s EXCEPT !.failure_count = @ + 1,
                        !.consecutive_failures = @ + 1,
                        !.last_failure_time = <<t>>]
    IN  IF s1.state = CLOSED
        THEN IF \/ s1.failure_count >= c.failure_threshold
                \/ s1.consecutive_failures >= c.max_consecutive_failures
             THEN transition_to(s1, OPEN, t)
             ELSE s1
        ELSE IF s1.state = HALF_OPEN
             THEN transition_to(s1, OPEN, t)
             ELSE s1

\* mutant of rejects: in HALF_OPEN only the call that made the transition
\* is a trial, later calls are rejected
rejects_trial_cap(s, c, t) ==
    \/ s.state = HALF_OPEN
    \/ s.state = OPEN /\ ~should_attempt_reset(s, c, t)

\* call(), the admission check: TRUE if the call is rejected (CircuitBreakerOpen)
rejects(s, c, t) == s.state = OPEN /\ ~should_attempt_reset(s, c, t)

\* mutant of admit: an elapsed timeout closes the breaker without a trial
admit_closes(s, c, t) ==
    IF s.state = OPEN /\ should_attempt_reset(s, c, t)
    THEN transition_to(s, CLOSED, t)
    ELSE s

\* call(), the admission check: the record it leaves
admit(s, c, t) ==
    IF s.state = OPEN /\ should_attempt_reset(s, c, t)
    THEN transition_to(s, HALF_OPEN, t)
    ELSE s

\* async with self._lock: entered only when the lock is free
acquire(h, p) == lock[h] = 0 /\ lock' = [lock EXCEPT ![h] = p]

\* leaving the async with block
release(h, p) == lock[h] = p /\ lock' = [lock EXCEPT ![h] = 0]

\* ------------------------------------------------------- CaptchaChain
\* mutant of add_solver: the test of _first_handler is inverted, the new
\* handler replaces the first one and is never linked
add_solver_replaces_first(cls, cfg) ==
    LET h == Len(solver) + 1
    IN  /\ solver' = Append(solver, cls)
        /\ config' = Append(config, cfg)
        /\ cb' = Append(cb, CircuitBreakerState(now))
        /\ lock' = Append(lock, 0)
        /\ first_handler' = h
        /\ next_handler' = Append(next_handler, 0)
        /\ handlers' = Append(handlers, h)

\* add_solver(solver, circuit_breaker_config): a new breaker and handler,
\* linked after the last handler of the list and appended to it
add_solver(cls, cfg) ==
    LET h == Len(solver) + 1
    IN  /\ solver' = Append(solver, cls)
        /\ config' = Append(config, cfg)
        /\ cb' = Append(cb, CircuitBreakerState(now))
        /\ lock' = Append(lock, 0)
        /\ IF first_handler = 0
           THEN /\ first_handler' = h
                /\ next_handler' = Append(next_handler, 0)
           ELSE /\ first_handler' = first_handler
                /\ next_handler' =
                      Append([next_handler EXCEPT ![handlers[Len(handlers)]] = h], 0)
        /\ handlers' = Append(handlers, h)

AddSolver ==
    /\ Len(solver) < MaxHandlers
    /\ \E cls \in SolverClasses, cfg \in ChainConfigs : add_solver(cls, cfg)
    /\ UNCHANGED <<now, procVars>>
    /\ status' = NoStatus

\* one entry of a request's log
Entry(h, ev, v) == [h |-> h, ev |-> ev, v |-> v]

\* mutant of Solve: every request starts with new breakers
Solve_forgets_history(p) ==
    /\ pc[p] = "idle"
    /\ nreq < MaxRequests
    /\ nreq' = nreq + 1
    /\ \E k \in CaptchaTypes : ctype' = [ctype EXCEPT ![p] = k]
    /\ log' = [log EXCEPT ![p] = <<>>]
    /\ IF first_handler = 0
       THEN /\ pc' = [pc EXCEPT ![p] = "done"]
            /\ result' = [result EXCEPT ![p] = [t |-> "return", v |-> <<>>]]
            /\ cur' = cur
       ELSE /\ pc' = [pc EXCEPT ![p] = "handle"]
            /\ cur' = [cur EXCEPT ![p] = first_handler]
            /\ result' = result
    /\ cb' = [b \in Breakers |-> CircuitBreakerState(now)]
    /\ UNCHANGED <<now, chainVars, lock, func, fres, callOut, recorded>>
    /\ status' = NoStatus

\* solve(page, captcha_info): None on an empty chain, else the first handler
Solve(p) ==
    /\ pc[p] = "idle"
    /\ nreq < MaxRequests
    /\ nreq' = nreq + 1
    /\ \E k \in CaptchaTypes : ctype' = [ctype EXCEPT ![p] = k]
    /\ log' = [log EXCEPT ![p] = <<>>]
    /\ IF first_handler = 0
       THEN /\ pc' = [pc EXCEPT ![p] = "done"]
            /\ result' = [result EXCEPT ![p] = [t |-> "return", v |-> <<>>]]
            /\ cur' = cur
       ELSE /\ pc' = [pc EXCEPT ![p] = "handle"]
            /\ cur' = [cur EXCEPT ![p] = first_handler]
            /\ result' = result
    /\ UNCHANGED <<now, chainVars, cb, lock, func, fres, callOut, recorded>>
    /\ status' = NoStatus

\* mutant of delegate: the handler gives up instead of passing the request on
delegate_gives_up(p, h, entry) ==
    /\ log' = [log EXCEPT ![p] = Append(@, entry)]
    /\ pc' = [pc EXCEPT ![p] = "done"]
    /\ result' = [result EXCEPT ![p] = [t |-> "return", v |-> <<>>]]
    /\ cur' = cur

\* mutant of delegate: the last handler's next is the first handler
delegate_loops_back(p, h, entry) ==
    /\ log' = [log EXCEPT ![p] = Append(@, entry)]
    /\ pc' = [pc EXCEPT ![p] = "handle"]
    /\ cur' = [cur EXCEPT ![p] = IF next_handler[h] # 0
                                 THEN next_handler[h] ELSE first_handler]
    /\ result' = result

\* handle(): delegation to the next handler, or None at the end of the chain
delegate(p, h, entry) ==
    /\ log' = [log EXCEPT ![p] = Append(@, entry)]
    /\ IF next_handler[h] # 0
       THEN /\ pc' = [pc EXCEPT ![p] = "handle"]
            /\ cur' = [cur EXCEPT ![p] = next_handler[h]]
            /\ result' = result
       ELSE /\ pc' = [pc EXCEPT ![p] = "done"]
            /\ result' = [result EXCEPT ![p] = [t |-> "return", v |-> <<>>]]
            /\ cur' = cur

\* mutant of Handle: the breaker's admission check runs before the
\* can_handle check
Handle_consults_breaker_first(p) ==
    /\ pc[p] = "handle"
    /\ IF ~can_handle(solver[cur[p]], ctype[p])
       THEN /\ delegate(p, cur[p], Entry(cur[p], "cannot_handle", <<>>))
            /\ cb' = [cb EXCEPT ![cur[p]] = admit(@, config[cur[p]], now)]
       ELSE /\ pc' = [pc EXCEPT ![p] = "call"]
            /\ UNCHANGED <<cur, result, log, cb>>
    /\ fres' = [fres EXCEPT ![p] = NoOutcome]
    /\ callOut' = [callOut EXCEPT ![p] = NoOutcome]
    /\ recorded' = [recorded EXCEPT ![p] = <<>>]
    /\ UNCHANGED <<now, chainVars, lock, ctype, func, nreq>>
    /\ status' = NoStatus

\* handle(), the can_handle check: delegate, or go on to circuit_breaker.call
Handle(p) ==
    /\ pc[p] = "handle"
    /\ IF ~can_handle(solver[cur[p]], ctype[p])
       THEN delegate(p, cur[p], Entry(cur[p], "cannot_handle", <<>>))
       ELSE /\ pc' = [pc EXCEPT ![p] = "call"]
            /\ UNCHANGED <<cur, result, log>>
    /\ fres' = [fres EXCEPT ![p] = NoOutcome]
    /\ callOut' = [callOut EXCEPT ![p] = NoOutcome]
    /\ recorded' = [recorded EXCEPT ![p] = <<>>]
    /\ UNCHANGED <<now, chainVars, cb, lock, ctype, func, nreq>>
    /\ status' = NoStatus

\* a caller awaits breaker.call(func) on the breaker b directly
Call(p, b) ==
    /\ pc[p] = "idle"
    /\ pc' = [pc EXCEPT ![p] = "call"]
    /\ cur' = [cur EXCEPT ![p] = b]
    /\ fres' = [fres EXCEPT ![p] = NoOutcome]
    /\ callOut' = [callOut EXCEPT ![p] = NoOutcome]
    /\ recorded' = [recorded EXCEPT ![p] = <<>>]
    /\ UNCHANGED <<now, chainVars, cb, lock, ctype, func, result, log, nreq>>
    /\ status' = NoStatus

\* call(): entering "async with self._lock" of the admission check
CallLock(p) ==
    /\ pc[p] = "call"
    /\ acquire(cur[p], p)
    /\ pc' = [pc EXCEPT ![p] = "admit"]
    /\ UNCHANGED <<now, chainVars, cb, cur, ctype, func, fres, callOut, recorded, result, log, nreq>>
    /\ status' = NoStatus

\* mutant of CallAdmit: the function is awaited inside the async with block
CallAdmit_awaits_under_lock(p) ==
    LET h == cur[p]
    IN  /\ pc[p] = "admit"
        /\ lock[h] = p
        /\ IF rejects(cb[h], config[h], now)
           THEN /\ callOut' = [callOut EXCEPT ![p] =
                                  [t |-> "raise", v |-> CircuitBreakerOpen]]
                /\ pc' = [pc EXCEPT ![p] = "call_done"]
                /\ cb' = cb
                /\ lock' = [lock EXCEPT ![h] = 0]
           ELSE /\ cb' = [cb EXCEPT ![h] = admit(cb[h], config[h], now)]
                /\ pc' = [pc EXCEPT ![p] = "func"]
                /\ callOut' = callOut
                /\ lock' = lock
        /\ UNCHANGED <<now, chainVars, cur, ctype, func, fres, recorded, result, log, nreq>>
        /\ status' = NoStatus

\* call(): the admission check under the lock, and the release of the lock
CallAdmit(p) ==
    LET h == cur[p]
    IN  /\ pc[p] = "admit"
        /\ release(h, p)
        /\ IF rejects(cb[h], config[h], now)
           THEN /\ callOut' = [callOut EXCEPT ![p] =
                                  [t |-> "raise", v |-> CircuitBreakerOpen]]
                /\ pc' = [pc EXCEPT ![p] = "call_done"]
                /\ cb' = cb
           ELSE /\ cb' = [cb EXCEPT ![h] = admit(cb[h], config[h], now)]
                /\ pc' = [pc EXCEPT ![p] = "func"]
                /\ callOut' = callOut
        /\ UNCHANGED <<now, chainVars, cur, ctype, func, fres, recorded, result, log, nreq>>
        /\ status' = NoStatus

\* what the function p's call() wraps may do
FuncOutcomes(p) ==
    IF func[p] = "solve" THEN SolverOutcomes(solver[cur[p]]) ELSE TestOutcomes

\* call(): the wrapped function (the solver's solve) ends, returning or raising
FuncEnd(p) ==
    /\ pc[p] = "func"
    /\ \E o \in FuncOutcomes(p) : fres' = [fres EXCEPT ![p] = o]
    /\ pc' = [pc EXCEPT ![p] = "record"]
    /\ UNCHANGED <<now, chainVars, cb, lock, cur, ctype, func, callOut, recorded, result, log, nreq>>
    /\ status' = NoStatus

\* _record_success / _record_failure: entering "async with self._lock"
RecordLock(p) ==
    /\ pc[p] = "record"
    /\ acquire(cur[p], p)
    /\ pc' = [pc EXCEPT ![p] = "recording"]
    /\ UNCHANGED <<now, chainVars, cb, cur, ctype, func, fres, callOut, recorded, result, log, nreq>>
    /\ status' = NoStatus

\* mutant of RecordSuccess: a None returned by the function is recorded as
\* a failure
RecordSuccess_none_is_failure(p) ==
    LET h == cur[p]
    IN  /\ pc[p] = "recording"
        /\ fres[p].t = "return"
        /\ release(h, p)
        /\ cb' = [cb EXCEPT ![h] = IF fres[p].v = <<>>
                                   THEN record_failure(cb[h], config[h], now)
                                   ELSE record_success(cb[h], config[h], now)]
        /\ recorded' = [recorded EXCEPT ![p] =
                            Append(@, IF fres[p].v = <<>> THEN "failure" ELSE "success")]
        /\ callOut' = [callOut EXCEPT ![p] = fres[p]]
        /\ pc' = [pc EXCEPT ![p] = "call_done"]
        /\ UNCHANGED <<now, chainVars, cur, ctype, func, fres, result, log, nreq>>
        /\ status' = NoStatus

\* call(): the function returned: _record_success, then return result
RecordSuccess(p) ==
    LET h == cur[p]
    IN  /\ pc[p] = "recording"
        /\ fres[p].t = "return"
        /\ release(h, p)
        /\ cb' = [cb EXCEPT ![h] = record_success(cb[h], config[h], now)]
        /\ recorded' = [recorded EXCEPT ![p] = Append(@, "success")]
        /\ callOut' = [callOut EXCEPT ![p] = fres[p]]
        /\ pc' = [pc EXCEPT ![p] = "call_done"]
        /\ UNCHANGED <<now, chainVars, cur, ctype, func, fres, result, log, nreq>>
        /\ status' = NoStatus

\* mutant of RecordFailure: the breakers are looked up by name (the name
\* of the solver's class), handlers
\* whose solvers are of one class record into each other's breaker
RecordFailure_by_name(p) ==
    LET h == cur[p]
    IN  /\ pc[p] = "recording"
        /\ fres[p].t = "raise"
        /\ release(h, p)
        /\ cb' = [b \in Breakers |->
                    IF solver[b] = solver[h]
                    THEN record_failure(cb[b], config[b], now)
                    ELSE cb[b]]
        /\ recorded' = [recorded EXCEPT ![p] = Append(@, "failure")]
        /\ callOut' = [callOut EXCEPT ![p] = fres[p]]
        /\ pc' = [pc EXCEPT ![p] = "call_done"]
        /\ UNCHANGED <<now, chainVars, cur, ctype, func, fres, result, log, nreq>>
        /\ status' = NoStatus

\* mutant of RecordFailure: a failure that opens the breaker is reported to
\* the caller as CircuitBreakerOpen
RecordFailure_replaces_error(p) ==
    LET h == cur[p]
        s1 == record_failure(cb[h], config[h], now)
    IN  /\ pc[p] = "recording"
        /\ fres[p].t = "raise"
        /\ release(h, p)
        /\ cb' = [cb EXCEPT ![h] = s1]
        /\ recorded' = [recorded EXCEPT ![p] = Append(@, "failure")]
        /\ callOut' = [callOut EXCEPT ![p] =
                          IF s1.state = OPEN /\ cb[h].state # OPEN
                          THEN [t |-> "raise", v |-> CircuitBreakerOpen]
                          ELSE fres[p]]
        /\ pc' = [pc EXCEPT ![p] = "call_done"]
        /\ UNCHANGED <<now, chainVars, cur, ctype, func, fres, result, log, nreq>>
        /\ status' = NoStatus

\* call(): the function raised: _record_failure, then raise
RecordFailure(p) ==
    LET h == cur[p]
    IN  /\ pc[p] = "recording"
        /\ fres[p].t = "raise"
        /\ release(h, p)
        /\ cb' = [cb EXCEPT ![h] = record_failure(cb[h], config[h], now)]
        /\ recorded' = [recorded EXCEPT ![p] = Append(@, "failure")]
        /\ callOut' = [callOut EXCEPT ![p] = fres[p]]
        /\ pc' = [pc EXCEPT ![p] = "call_done"]
        /\ UNCHANGED <<now, chainVars, cur, ctype, func, fres, result, log, nreq>>
        /\ status' = NoStatus

\* mutant of HandleResult: after a None the handler tries its own solver
\* again instead of passing the request on
HandleResult_retries_on_none(p) ==
    LET h == cur[p]
        o == callOut[p]
    IN  /\ pc[p] = "call_done"
        /\ IF o.t = "return" /\ Truthy(o.v)
           THEN /\ log' = [log EXCEPT ![p] = Append(@, Entry(h, "returned", o.v))]
                /\ pc' = [pc EXCEPT ![p] = "done"]
                /\ result' = [result EXCEPT ![p] = [t |-> "return", v |-> o.v]]
                /\ cur' = cur
           ELSE IF o.t = "return"
                THEN /\ log' = [log EXCEPT ![p] = Append(@, Entry(h, "returned", o.v))]
                     /\ pc' = [pc EXCEPT ![p] = "handle"]
                     /\ UNCHANGED <<cur, result>>
                ELSE IF o.v = CircuitBreakerOpen
                     THEN delegate(p, h, Entry(h, "breaker_open", <<>>))
                     ELSE delegate(p, h, Entry(h, "raised", <<>>))
        /\ UNCHANGED <<now, chainVars, cb, lock, ctype, func, fres, callOut, recorded, nreq>>
        /\ status' = NoStatus

\* mutant of HandleResult: handle() has no clause for CircuitBreakerOpen,
\* a rejection leaves handle() and solve()
HandleResult_rejection_escapes(p) ==
    LET h == cur[p]
        o == callOut[p]
    IN  /\ pc[p] = "call_done"
        /\ IF o.t = "return" /\ Truthy(o.v)
           THEN /\ log' = [log EXCEPT ![p] = Append(@, Entry(h, "returned", o.v))]
                /\ pc' = [pc EXCEPT ![p] = "done"]
                /\ result' = [result EXCEPT ![p] = [t |-> "return", v |-> o.v]]
                /\ cur' = cur
           ELSE IF o.t = "return"
                THEN delegate(p, h, Entry(h, "returned", o.v))
                ELSE IF o.v = CircuitBreakerOpen
                     THEN /\ log' = [log EXCEPT ![p] = Append(@, Entry(h, "breaker_open", <<>>))]
                          /\ pc' = [pc EXCEPT ![p] = "done"]
                          /\ result' = [result EXCEPT ![p] = o]
                          /\ cur' = cur
                     ELSE delegate(p, h, Entry(h, "raised", <<>>))
        /\ UNCHANGED <<now, chainVars, cb, lock, ctype, func, fres, callOut, recorded, nreq>>
        /\ status' = NoStatus

\* mutant of HandleResult: handle() catches CircuitBreakerOpen only, a
\* solver's error leaves handle() and solve()
HandleResult_propagates(p) ==
    LET h == cur[p]
        o == callOut[p]
    IN  /\ pc[p] = "call_done"
        /\ IF o.t = "return" /\ Truthy(o.v)
           THEN /\ log' = [log EXCEPT ![p] = Append(@, Entry(h, "returned", o.v))]
                /\ pc' = [pc EXCEPT ![p] = "done"]
                /\ result' = [result EXCEPT ![p] = [t |-> "return", v |-> o.v]]
                /\ cur' = cur
           ELSE IF o.t = "return"
                THEN delegate(p, h, Entry(h, "returned", o.v))
                ELSE IF o.v = CircuitBreakerOpen
                     THEN delegate(p, h, Entry(h, "breaker_open", <<>>))
                     ELSE /\ log' = [log EXCEPT ![p] = Append(@, Entry(h, "raised", <<>>))]
                          /\ pc' = [pc EXCEPT ![p] = "done"]
                          /\ result' = [result EXCEPT ![p] = o]
                          /\ cur' = cur
        /\ UNCHANGED <<now, chainVars, cb, lock, ctype, func, fres, callOut, recorded, nreq>>
        /\ status' = NoStatus

\* handle(), after circuit_breaker.call: a truthy solution is returned,
\* anything else (None, "", CircuitBreakerOpen, an Exception) is delegated
HandleResult(p) ==
    LET h == cur[p]
        o == callOut[p]
    IN  /\ pc[p] = "call_done"
        /\ IF o.t = "return" /\ Truthy(o.v)
           THEN /\ log' = [log EXCEPT ![p] = Append(@, Entry(h, "returned", o.v))]
                /\ pc' = [pc EXCEPT ![p] = "done"]
                /\ result' = [result EXCEPT ![p] = [t |-> "return", v |-> o.v]]
                /\ cur' = cur
           ELSE IF o.t = "return"
                THEN delegate(p, h, Entry(h, "returned", o.v))
                ELSE IF o.v = CircuitBreakerOpen
                     THEN delegate(p, h, Entry(h, "breaker_open", <<>>))
                     ELSE delegate(p, h, Entry(h, "raised", <<>>))
        /\ UNCHANGED <<now, chainVars, cb, lock, ctype, func, fres, callOut, recorded, nreq>>
        /\ status' = NoStatus

\* the direct caller takes what call() returned or raised
CallEnd(p) ==
    /\ pc[p] = "call_done"
    /\ pc' = [pc EXCEPT ![p] = "idle"]
    /\ cur' = [cur EXCEPT ![p] = 0]
    /\ fres' = [fres EXCEPT ![p] = NoOutcome]
    /\ callOut' = [callOut EXCEPT ![p] = NoOutcome]
    /\ recorded' = [recorded EXCEPT ![p] = <<>>]
    /\ UNCHANGED <<now, chainVars, cb, lock, ctype, func, result, log, nreq>>
    /\ status' = NoStatus

\* the caller takes solve()'s result; the coroutine may issue another request
Return(p) ==
    /\ pc[p] = "done"
    /\ pc' = [pc EXCEPT ![p] = "idle"]
    /\ cur' = [cur EXCEPT ![p] = 0]
    /\ fres' = [fres EXCEPT ![p] = NoOutcome]
    /\ callOut' = [callOut EXCEPT ![p] = NoOutcome]
    /\ recorded' = [recorded EXCEPT ![p] = <<>>]
    /\ result' = [result EXCEPT ![p] = NoOutcome]
    /\ log' = [log EXCEPT ![p] = <<>>]
    /\ ctype' = [ctype EXCEPT ![p] = "image"]
    /\ UNCHANGED <<now, chainVars, cb, lock, func, nreq>>
    /\ status' = NoStatus

\* ----------------------------------------------------------- get_status
\* datetime.isoformat(): the timestamp as a string
isoformat(t) == [iso |-> t]

\* self.name: the solver's class name in a chain, "test_service" in the tests
name(b) == IF b \in DOMAIN solver THEN solver[b] ELSE "test_service"

\* mutant of get_status: failure_count reports the streak counter
get_status_mixes_counters(b) ==
    [name |-> name(b),
     state |-> cb[b].state,
     failure_count |-> cb[b].consecutive_failures,
     success_count |-> cb[b].success_count,
     consecutive_failures |-> cb[b].consecutive_failures,
     last_failure_time |-> IF cb[b].last_failure_time # <<>>
                           THEN <<isoformat(cb[b].last_failure_time[1])>>
                           ELSE <<>>,
     last_state_change |-> isoformat(cb[b].last_state_change)]

\* CircuitBreaker.get_status(): the dictionary it builds; a synchronous
\* method, no lock taken
get_status(b) ==
    [name |-> name(b),
     state |-> cb[b].state,
     failure_count |-> cb[b].failure_count,
     success_count |-> cb[b].success_count,
     consecutive_failures |-> cb[b].consecutive_failures,
     last_failure_time |-> IF cb[b].last_failure_time # <<>>
                           THEN <<isoformat(cb[b].last_failure_time[1])>>
                           ELSE <<>>,
     last_state_change |-> isoformat(cb[b].last_state_change)]

\* a call of CircuitBreaker.get_status() on the breaker b
GetStatus(b) ==
    /\ b \in Breakers
    /\ status' = <<[of |-> "breaker", b |-> b, v |-> get_status(b)]>>
    /\ UNCHANGED <<now, chainVars, cb, lock, procVars>>

\* mutant of ChainGetStatus: reading a breaker's status runs its
\* admission check
ChainGetStatus_attempts_reset ==
    /\ status' = <<[of |-> "chain",
                    v |-> [i \in 1..Len(handlers) |-> get_status(handlers[i])]]>>
    /\ cb' = [b \in Breakers |-> admit(cb[b], config[b], now)]
    /\ UNCHANGED <<now, chainVars, lock, procVars>>

\* a call of CaptchaChain.get_status(): the status of every handler's
\* breaker, in the order of the handler list
ChainGetStatus ==
    /\ status' = <<[of |-> "chain",
                    v |-> [i \in 1..Len(handlers) |-> get_status(handlers[i])]]>>
    /\ UNCHANGED <<now, chainVars, cb, lock, procVars>>

\* concurrent callers of one breaker
Next ==
    \/ Tick(MaxTime)
    \/ \E p \in Procs : Call(p, 1)
    \/ \E p \in Procs : CallLock(p)
    \/ \E p \in Procs : CallAdmit(p)
    \/ \E p \in Procs : FuncEnd(p)
    \/ \E p \in Procs : RecordLock(p)
    \/ \E p \in Procs : RecordSuccess(p)
    \/ \E p \in Procs : RecordFailure(p)
    \/ \E p \in Procs : CallEnd(p)

Spec == Init /\ [][Next]_vars

\* the callers of the breaker whose calls overlap: one makes the trial
\* calls while a call of the other is in flight
LiveProcs == {1, 2}

\* two concurrent callers of one breaker
NextLive ==
    \/ Tick(MaxTime)
    \/ \E p \in LiveProcs : Call(p, 1)
    \/ \E p \in LiveProcs : CallLock(p)
    \/ \E p \in LiveProcs : CallAdmit(p)
    \/ \E p \in LiveProcs : FuncEnd(p)
    \/ \E p \in LiveProcs : RecordLock(p)
    \/ \E p \in LiveProcs : RecordSuccess(p)
    \/ \E p \in LiveProcs : RecordFailure(p)
    \/ \E p \in LiveProcs : CallEnd(p)

\* a step of p's call() that waits for nothing / that takes the lock
Proceed(p) ==
    \/ Call(p, 1) \/ CallAdmit(p) \/ FuncEnd(p)
    \/ RecordSuccess(p) \/ RecordFailure(p) \/ CallEnd(p)
TakeLock(p) == CallLock(p) \/ RecordLock(p)

\* the event loop's scheduling: time passes, callers keep calling, every
\* coroutine that is ready to run is run, the wrapped function ends, and a
\* coroutine waiting for the lock gets it (asyncio.Lock wakes its waiters
\* in order)
Fairness ==
    /\ WF_vars(Tick(MaxTime))
    /\ \A p \in LiveProcs : WF_vars(Proceed(p)) /\ SF_vars(TakeLock(p))

\* two concurrent callers of one breaker under the event loop's scheduling
SpecLive == Init /\ [][NextLive]_vars /\ Fairness

\* one caller of one breaker, one call at a time
NextSeq ==
    \/ Tick(MaxTime)
    \/ Call(1, 1)
    \/ CallLock(1)
    \/ CallAdmit(1)
    \/ FuncEnd(1)
    \/ RecordLock(1)
    \/ RecordSuccess(1)
    \/ RecordFailure(1)
    \/ CallEnd(1)

SpecSeq == Init /\ [][NextSeq]_vars

\* the caller whose one call is slow, and the caller of the later calls
SlowCaller == 1
LaterCaller == 2

\* the later caller awaits breaker.call(func) once the slow call is past
\* its admission check
LaterCall ==
    /\ pc[SlowCaller] \in {"func", "record", "recording", "call_done"}
    /\ Call(LaterCaller, 1)

\* one slow call, admitted by the new breaker, and the calls made while
\* and after it runs
NextStale ==
    \/ Tick(MaxTime)
    \/ Call(SlowCaller, 1)
    \/ LaterCall
    \/ \E p \in {SlowCaller, LaterCaller} : CallLock(p)
    \/ \E p \in {SlowCaller, LaterCaller} : CallAdmit(p)
    \/ \E p \in {SlowCaller, LaterCaller} : FuncEnd(p)
    \/ \E p \in {SlowCaller, LaterCaller} : RecordLock(p)
    \/ \E p \in {SlowCaller, LaterCaller} : RecordSuccess(p)
    \/ \E p \in {SlowCaller, LaterCaller} : RecordFailure(p)
    \/ CallEnd(LaterCaller)

SpecStale == Init /\ [][NextStale]_vars

\* CaptchaSolverHandler(solver, config): a handler's breaker, whose calls
\* wrap the solver's solve
InitSolver ==
    /\ now = 0
    /\ first_handler = 0
    /\ handlers = <<>>
    /\ next_handler = <<>>
    /\ \E cls \in SolverClasses : solver = <<cls>>
    /\ \E c \in ChainConfigs : config = <<c>>
    /\ cb = <<CircuitBreakerState(0)>>
    /\ lock = <<0>>
    /\ ProcsInit("solve")

\* one handler's breaker, its solver called one call at a time
SpecSolver == InitSolver /\ [][NextSeq]_vars

\* the breaker of the unit tests' fixture
InitStatus ==
    /\ Init
    /\ config = <<TestConfig>>

\* concurrent callers of one breaker, and a monitor reading its status
NextStatus ==
    \/ Next
    \/ GetStatus(1)

SpecStatus == InitStatus /\ [][NextStatus]_vars

\* solve requests on a chain under assembly
NextChain ==
    \/ Tick(ChainMaxTime)
    \/ AddSolver
    \/ \E p \in ChainProcs : Solve(p)
    \/ \E p \in ChainProcs : Handle(p)
    \/ \E p \in ChainProcs : CallLock(p)
    \/ \E p \in ChainProcs : CallAdmit(p)
    \/ \E p \in ChainProcs : FuncEnd(p)
    \/ \E p \in ChainProcs : RecordLock(p)
    \/ \E p \in ChainProcs : RecordSuccess(p)
    \/ \E p \in ChainProcs : RecordFailure(p)
    \/ \E p \in ChainProcs : HandleResult(p)
    \/ \E p \in ChainProcs : Return(p)

SpecChain == InitChain /\ [][NextChain]_vars

\* a step of p's solve request, from the first handler to the result
RequestStep(p) ==
    \/ Handle(p) \/ CallLock(p) \/ CallAdmit(p) \/ FuncEnd(p)
    \/ RecordLock(p) \/ RecordSuccess(p) \/ RecordFailure(p)
    \/ HandleResult(p)

\* solve requests on a chain under assembly, when the event loop runs the
\* request's coroutine and every solver call it awaits returns or raises
SpecChainLive ==
    /\ InitChain
    /\ [][NextChain]_vars
    /\ \A p \in ChainProcs : WF_vars(RequestStep(p))

\* solve(page, captcha_info), one of the requests a monitor watches
StatusSolve(p) ==
    /\ nreq < StatusRequests
    /\ Solve(p)

\* solve requests on a chain under assembly, and a monitor reading the
\* chain's status
NextChainStatus ==
    \/ Tick(ChainMaxTime)
    \/ AddSolver
    \/ \E p \in ChainProcs : StatusSolve(p)
    \/ \E p \in ChainProcs : Handle(p)
    \/ \E p \in ChainProcs : CallLock(p)
    \/ \E p \in ChainProcs : CallAdmit(p)
    \/ \E p \in ChainProcs : FuncEnd(p)
    \/ \E p \in ChainProcs : RecordLock(p)
    \/ \E p \in ChainProcs : RecordSuccess(p)
    \/ \E p \in ChainProcs : RecordFailure(p)
    \/ \E p \in ChainProcs : HandleResult(p)
    \/ \E p \in ChainProcs : Return(p)
    \/ ChainGetStatus

SpecChainStatus == InitChain /\ [][NextChainStatus]_vars

\* ====================================================================
\* Properties
\* ====================================================================

\* the step in which p's call() makes its admission check
AdmissionStep(p) == pc[p] = "admit" /\ pc'[p] # "admit"

\* the steps in which p's call() records a failure / a success
FailureStep(p) == pc[p] = "recording" /\ fres[p].t = "raise" /\ pc'[p] = "call_done"
SuccessStep(p) == pc[p] = "recording" /\ fres[p].t = "return" /\ pc'[p] = "call_done"

\* the call p has made was rejected
Rejected(p) ==
    pc[p] = "call_done" /\ callOut[p] = [t |-> "raise", v |-> CircuitBreakerOpen]

\* now - last_failure_time of the record s
SinceFailure(s) == now - s.last_failure_time[1]

LegalTransitions ==
    {<<CLOSED, OPEN>>, <<OPEN, HALF_OPEN>>, <<HALF_OPEN, CLOSED>>, <<HALF_OPEN, OPEN>>}

\* C1: under any interleaving of concurrent calls, every change of a
\* breaker's state is CLOSED->OPEN, OPEN->HALF_OPEN, HALF_OPEN->CLOSED or
\* HALF_OPEN->OPEN, and it is made by the coroutine that holds the
\* breaker's lock, in its admission check or its recording of an outcome.
C1_LegalTransitionsUnderLock ==
    [][\A b \in Breakers :
          cb'[b].state # cb[b].state =>
              /\ <<cb[b].state, cb'[b].state>> \in LegalTransitions
              /\ lock[b] \in Procs
              /\ cur[lock[b]] = b
              /\ pc[lock[b]] \in {"admit", "recording"}
              /\ pc'[lock[b]] # pc[lock[b]]]_vars

\* C1 witness: the breaker has closed again (HALF_OPEN->CLOSED, after
\* CLOSED->OPEN->HALF_OPEN) while another call is inside its function.
C1_Witness ==
    /\ cb[1].state = CLOSED
    /\ cb[1].last_failure_time # <<>>
    /\ cb[1].last_state_change > cb[1].last_failure_time[1]
    /\ \E p, q \in Procs :
          /\ p # q
          /\ pc[p] = "func"
          /\ pc[q] = "call_done" /\ recorded[q] = <<"success">>

\* C2: a breaker starts CLOSED; a failure recorded while CLOSED counts once
\* in failure_count and consecutive_failures and opens the breaker if and
\* only if one of them has then reached its threshold (so with thresholds
\* 5 and 3 the third consecutive failure opens it, and the second does not).
C2_OpensIffThresholdReached ==
    /\ \A b \in Breakers : cb[b].state = CLOSED
    /\ [][\A p \in Procs :
            (FailureStep(p) /\ cb[cur[p]].state = CLOSED) =>
                LET b == cur[p]
                    c == config[b]
                IN  /\ cb'[b].failure_count = cb[b].failure_count + 1
                    /\ cb'[b].consecutive_failures = cb[b].consecutive_failures + 1
                    /\ cb'[b].state \in {CLOSED, OPEN}
                    /\ cb'[b].state = OPEN <=>
                          \/ cb'[b].failure_count >= c.failure_threshold
                          \/ cb'[b].consecutive_failures >= c.max_consecutive_failures
                    /\ (c = DefaultConfig /\ cb[b].consecutive_failures = 2)
                          => cb'[b].state = OPEN /\ cb'[b].consecutive_failures = 3
                    /\ (c = DefaultConfig /\ cb[b].failure_count = 1)
                          => cb'[b].state = CLOSED]_vars

\* C2 witness: thresholds 5 and 3, three failures and no success: OPEN with
\* consecutive_failures = 3, opened by the consecutive threshold alone.
C2_Witness ==
    /\ config[1].failure_threshold = 5
    /\ config[1].max_consecutive_failures = 3
    /\ cb[1].state = OPEN
    /\ cb[1].failure_count = 3
    /\ cb[1].consecutive_failures = 3

\* C3: the admission check rejects the call (CircuitBreakerOpen) exactly
\* when the breaker is OPEN and now - last_failure_time < recovery_timeout;
\* a rejected call does not run the function and leaves the breaker's
\* record as it was; in CLOSED and in HALF_OPEN the call is admitted,
\* however many calls are already inside the function.
C3_RejectsExactlyOpenBeforeTimeout ==
    /\ [](\A b \in Breakers : cb[b].state = OPEN => cb[b].last_failure_time # <<>>)
    /\ [][\A p \in Procs :
            AdmissionStep(p) =>
                LET b == cur[p]
                    tooEarly == /\ cb[b].state = OPEN
                                /\ SinceFailure(cb[b]) < config[b].recovery_timeout
                IN  /\ Rejected(p)' <=> tooEarly
                    /\ Rejected(p)' =>
                          /\ cb' = cb
                          /\ fres'[p] = NoOutcome
                          /\ recorded'[p] = <<>>
                    /\ ~Rejected(p)' => pc'[p] = "func"
                    /\ cb[b].state \in {CLOSED, HALF_OPEN} =>
                          pc'[p] = "func" /\ cb' = cb]_vars

\* C3 witness: a call was rejected while another, admitted earlier, is
\* still inside its function.
C3_Witness ==
    \E p, q \in Procs : Rejected(p) /\ recorded[p] = <<>> /\ pc[q] = "func"

\* C4: OPEN->HALF_OPEN is made only by the admission check of a call that
\* holds the lock and finds now - last_failure_time >= recovery_timeout,
\* the boundary included; that call goes on to run the function; a step
\* of the clock changes no breaker.
C4_HalfOpenOnlyByDueCall ==
    [][/\ \A b \in Breakers :
            (cb[b].state = OPEN /\ cb'[b].state = HALF_OPEN) =>
                \E p \in Procs :
                    /\ AdmissionStep(p) /\ cur[p] = b /\ lock[b] = p
                    /\ SinceFailure(cb[b]) >= config[b].recovery_timeout
                    /\ pc'[p] = "func"
       /\ \A p \in Procs :
            (/\ AdmissionStep(p)
             /\ cb[cur[p]].state = OPEN
             /\ SinceFailure(cb[cur[p]]) >= config[cur[p]].recovery_timeout) =>
                cb'[cur[p]].state = HALF_OPEN /\ pc'[p] = "func"
       /\ now' # now => cb' = cb]_vars

\* C4 witness: a trial call is inside the function, admitted exactly
\* recovery_timeout after the last failure.
C4_Witness ==
    /\ cb[1].state = HALF_OPEN
    /\ cb[1].last_state_change = cb[1].last_failure_time[1] + config[1].recovery_timeout
    /\ \E p \in Procs : pc[p] = "func"

\* C5: sequential use.  The call that finds the timeout elapsed enters
\* HALF_OPEN with success_count = 0; each success recorded in HALF_OPEN
\* counts one; the success that brings the count to success_threshold
\* closes the breaker with failure_count = 0 and consecutive_failures = 0,
\* and after any smaller number (at least one) of successes the breaker is
\* HALF_OPEN, not CLOSED.
C5_ClosesAfterSuccessThreshold ==
    /\ [](\A b \in Breakers :
            /\ cb[b].state = HALF_OPEN =>
                  cb[b].success_count < config[b].success_threshold
            /\ (cb[b].state = HALF_OPEN /\ pc[1] = "call_done") =>
                  recorded[1] = <<"success">> /\ cb[b].success_count >= 1)
    /\ [][/\ \A b \in Breakers :
                (cb[b].state = OPEN /\ cb'[b].state = HALF_OPEN) =>
                    cb'[b].success_count = 0
          /\ (SuccessStep(1) /\ cb[cur[1]].state = HALF_OPEN) =>
                LET b == cur[1]
                IN  IF cb[b].success_count + 1 >= config[b].success_threshold
                    THEN /\ cb'[b].state = CLOSED
                         /\ cb'[b].failure_count = 0
                         /\ cb'[b].consecutive_failures = 0
                    ELSE /\ cb'[b].state = HALF_OPEN
                         /\ cb'[b].success_count = cb[b].success_count + 1]_vars

\* C5 witness: the call that has just completed was the success_threshold-th
\* trial success, and the breaker is CLOSED with its failure counters at 0.
C5_Witness ==
    /\ pc[1] = "call_done" /\ recorded[1] = <<"success">>
    /\ cb[1].state = CLOSED
    /\ cb[1].success_count = config[1].success_threshold
    /\ cb[1].last_failure_time # <<>>
    /\ cb[1].last_state_change = now
    /\ cb[1].failure_count = 0 /\ cb[1].consecutive_failures = 0

\* C6: a failure recorded in HALF_OPEN opens the breaker at once, whatever
\* success_count and the failure counters are, and stamps last_failure_time
\* with the time of that failure; the breaker does not leave OPEN for
\* HALF_OPEN before recovery_timeout has elapsed since its last failure.
C6_HalfOpenFailureReopens ==
    [][/\ \A p \in Procs :
            (FailureStep(p) /\ cb[cur[p]].state = HALF_OPEN) =>
                /\ cb'[cur[p]].state = OPEN
                /\ cb'[cur[p]].last_failure_time = <<now>>
       /\ \A p \in Procs :
            (/\ AdmissionStep(p)
             /\ cb[cur[p]].state = OPEN
             /\ now < cb[cur[p]].last_failure_time[1] + config[cur[p]].recovery_timeout) =>
                Rejected(p)' /\ cb'[cur[p]] = cb[cur[p]]
       /\ \A b \in Breakers :
            (cb[b].state = OPEN /\ cb'[b].state # OPEN) =>
                now >= cb[b].last_failure_time[1] + config[b].recovery_timeout]_vars

\* C6 witness: reopened by a failure that followed a trial success and left
\* both failure counters below their thresholds.
C6_Witness ==
    /\ cb[1].state = OPEN
    /\ cb[1].success_count >= 1
    /\ cb[1].last_failure_time = <<now>>
    /\ cb[1].failure_count < config[1].failure_threshold
    /\ cb[1].consecutive_failures < config[1].max_consecutive_failures
    /\ \E p \in Procs : pc[p] = "call_done" /\ recorded[p] = <<"failure">>

\* C7 as stated: the failure that returns a HALF_OPEN breaker to OPEN leaves
\* success_count = 0.
C7_Original_SuccessCountResetOnReopen ==
    [][\A p \in Procs :
          (FailureStep(p) /\ cb[cur[p]].state = HALF_OPEN) =>
              cb'[cur[p]].state = OPEN /\ cb'[cur[p]].success_count = 0]_vars

\* C7 amended: the failure that returns a HALF_OPEN breaker to OPEN leaves
\* success_count as it was (the number of trial successes counted before
\* the failure); the counter is set to 0 when the breaker next enters
\* HALF_OPEN.
C7_SuccessCountKeptUntilHalfOpen ==
    [][/\ \A p \in Procs :
            (FailureStep(p) /\ cb[cur[p]].state = HALF_OPEN) =>
                /\ cb'[cur[p]].state = OPEN
                /\ cb'[cur[p]].success_count = cb[cur[p]].success_count
       /\ \A b \in Breakers :
            (cb[b].state # HALF_OPEN /\ cb'[b].state = HALF_OPEN) =>
                cb'[b].success_count = 0]_vars

\* C7 witness: OPEN again after a failed trial, the trial successes counted
\* before the failure still in success_count.
C7_Witness ==
    /\ cb[1].state = OPEN
    /\ cb[1].success_count = config[1].success_threshold - 1
    /\ cb[1].last_state_change = cb[1].last_failure_time[1]
    /\ cb[1].last_state_change > 0

\* C8: a call() that has ended either was rejected (CircuitBreakerOpen, the
\* function not run, nothing recorded), or raises the very error its
\* function raised after recording one failure, or returns the very value
\* its function returned after recording one success; each recording counts
\* once in the breaker's record.
C8_OutcomePassedThrough ==
    /\ [](\A p \in Procs :
            pc[p] = "call_done" =>
                /\ callOut[p] # NoOutcome
                /\ fres[p] = NoOutcome =>
                      Rejected(p) /\ recorded[p] = <<>>
                /\ fres[p].t = "raise" =>
                      callOut[p] = fres[p] /\ recorded[p] = <<"failure">>
                /\ fres[p].t = "return" =>
                      callOut[p] = fres[p] /\ recorded[p] = <<"success">>
                /\ Rejected(p) => fres[p] = NoOutcome)
    /\ [][\A p \in Procs :
            /\ FailureStep(p) =>
                  /\ cb'[cur[p]].failure_count = cb[cur[p]].failure_count + 1
                  /\ cb'[cur[p]].consecutive_failures =
                        cb[cur[p]].consecutive_failures + 1
            /\ SuccessStep(p) =>
                  /\ cb'[cur[p]].consecutive_failures = 0
                  /\ cb'[cur[p]].failure_count \in {cb[cur[p]].failure_count, 0}
                  /\ cb[cur[p]].state = HALF_OPEN =>
                        cb'[cur[p]].success_count = cb[cur[p]].success_count + 1]_vars

\* C8 witness: the function raised, the failure opened the breaker, and the
\* caller is given the function's own error.
C8_Witness ==
    \E p \in Procs :
        /\ pc[p] = "call_done"
        /\ fres[p].t = "raise" /\ callOut[p] = fres[p]
        /\ recorded[p] = <<"failure">>
        /\ cb[cur[p]].state = OPEN
        /\ cb[cur[p]].last_state_change = now

\* an entry of a request's log in which the handler's solver produced a
\* solution (a non-empty string, as handle() tests it)
Produced(e) == e.ev = "returned" /\ Truthy(e.v)

\* the value None as solve()'s result
ReturnsNone == [t |-> "return", v |-> <<>>]

\* C9: a finished solve request has tried the handlers in registration
\* order from the first, each once; a handler is skipped without a call iff
\* its solver cannot handle the kind; the result is the solution of the
\* first handler that produced one (its solver can handle the kind, its
\* breaker admitted the call, the solver returned a solution) and no later
\* handler is tried; the result is None iff no handler produced a solution,
\* and then every handler of the chain was tried (none on the empty chain);
\* the result is a returned value, not a raised error.
C9_FirstSolutionInOrder ==
    /\ [](\A p \in ChainProcs :
            pc[p] = "done" =>
                LET L == log[p]
                    n == Len(L)
                IN  /\ result[p].t = "return"
                    /\ n <= Len(handlers)
                    /\ \A i \in 1..n :
                          /\ L[i].h = handlers[i]
                          /\ L[i].ev = "cannot_handle" <=>
                                ~can_handle(solver[L[i].h], ctype[p])
                          /\ Produced(L[i]) =>
                                /\ i = n
                                /\ L[i].v = <<SolverToken(solver[L[i].h])>>
                                /\ result[p].v = L[i].v
                                /\ can_handle(solver[L[i].h], ctype[p])
                                /\ fres[p] = [t |-> "return", v |-> L[i].v]
                                /\ recorded[p] = <<"success">>
                    /\ result[p] = ReturnsNone <=> (\A i \in 1..n : ~Produced(L[i]))
                    /\ result[p] # ReturnsNone => n >= 1 /\ Produced(L[n]))
    /\ [][\A p \in ChainProcs :
            (pc[p] # "done" /\ pc'[p] = "done" /\ result'[p] = ReturnsNone) =>
                /\ Len(log'[p]) = Len(handlers)
                /\ first_handler = 0 <=> log'[p] = <<>>]_vars

\* C9 witness: the first handler's solver returned None, the second one a
\* solution, which is the request's result.
C9_Witness ==
    \E p \in ChainProcs :
        /\ pc[p] = "done"
        /\ Len(log[p]) = 2
        /\ log[p][1].ev = "returned" /\ log[p][1].v = <<>>
        /\ Produced(log[p][2])
        /\ result[p] = [t |-> "return", v |-> log[p][2].v]

\* C10: when a handler's solver raises, handle() takes the error: that call
\* has recorded one failure, on that handler's breaker and on no other, the
\* request goes on to the next handler, or ends with None if there is none;
\* no solve request ends in a raised error.
C10_SolverErrorNeverLeavesSolve ==
    /\ [](\A p \in ChainProcs : pc[p] = "done" => result[p].t = "return")
    /\ [][\A p \in ChainProcs :
            /\ FailureStep(p) =>
                  /\ cb'[cur[p]].failure_count = cb[cur[p]].failure_count + 1
                  /\ \A b \in Breakers : b # cur[p] => cb'[b] = cb[b]
            /\ (/\ pc[p] = "call_done" /\ pc'[p] # "call_done"
                /\ callOut[p].t = "raise" /\ callOut[p].v # CircuitBreakerOpen) =>
                  /\ recorded[p] = <<"failure">>
                  /\ cb' = cb
                  /\ log'[p] = Append(log[p], Entry(cur[p], "raised", <<>>))
                  /\ IF next_handler[cur[p]] # 0
                     THEN pc'[p] = "handle" /\ cur'[p] = next_handler[cur[p]]
                     ELSE pc'[p] = "done" /\ result'[p] = ReturnsNone]_vars

\* C10 witness: the first handler's solver raised, its breaker counted the
\* failure, and the request ended with the second handler's solution.
C10_Witness ==
    \E p \in ChainProcs :
        /\ pc[p] = "done"
        /\ Len(log[p]) = 2
        /\ log[p][1].ev = "raised"
        /\ cb[log[p][1].h].failure_count >= 1
        /\ cb[log[p][1].h].last_failure_time # <<>>
        /\ Produced(log[p][2])
        /\ result[p] = [t |-> "return", v |-> log[p][2].v]

\* the step in which p's handle() takes the outcome o of circuit_breaker.call
HandlerTakes(p, o) ==
    pc[p] = "call_done" /\ callOut[p] = o /\ pc'[p] # "call_done"

\* the step of handle() for a None returned by the solver, as far as the
\* request goes: on to the next handler, or the end with None
DelegatedLikeNone(p) ==
    IF next_handler[cur[p]] # 0
    THEN pc'[p] = "handle" /\ cur'[p] = next_handler[cur[p]] /\ result'[p] = result[p]
    ELSE pc'[p] = "done" /\ result'[p] = ReturnsNone

\* C11: a rejection by a handler's breaker (CircuitBreakerOpen) means the
\* handler's solver was not invoked and nothing was recorded; handle()
\* takes it as it takes None: the request goes on to the next handler, or
\* ends with None if there is none; no request ends with
\* CircuitBreakerOpen raised.
C11_RejectionIsDelegated ==
    /\ [](\A p \in ChainProcs :
            /\ pc[p] = "done" => result[p].v # CircuitBreakerOpen
            /\ (pc[p] = "done" /\ log[p] # <<>>
                  /\ log[p][Len(log[p])].ev = "breaker_open") =>
                  result[p] = ReturnsNone
            /\ Rejected(p) =>
                  /\ fres[p] = NoOutcome /\ recorded[p] = <<>>
                  /\ cb[cur[p]].state = OPEN)
    /\ [][\A p \in ChainProcs :
            HandlerTakes(p, [t |-> "raise", v |-> CircuitBreakerOpen]) =>
                /\ DelegatedLikeNone(p)
                /\ log'[p] = Append(log[p], Entry(cur[p], "breaker_open", <<>>))
                /\ cb' = cb /\ fres'[p] = NoOutcome]_vars

\* C11 witness: the first handler's breaker rejected the call, the second
\* handler's solver produced the request's result.
C11_Witness ==
    \E p \in ChainProcs :
        /\ pc[p] = "done"
        /\ Len(log[p]) = 2
        /\ log[p][1].ev = "breaker_open"
        /\ cb[log[p][1].h].state = OPEN
        /\ Produced(log[p][2])
        /\ result[p] = [t |-> "return", v |-> log[p][2].v]

\* the step in which p's handle() makes its can_handle check
CanHandleStep(p) ==
    pc[p] = "handle" /\ (pc'[p] # "handle" \/ cur'[p] # cur[p])

\* C12: when the kind is not among the types of a handler's solver,
\* handle() passes the request on (next handler, or None at the end) and
\* the handler's breaker is untouched: record, lock and config are as
\* before, nothing is recorded, and an OPEN breaker whose timeout has
\* elapsed stays OPEN.
C12_InapplicableLeavesBreaker ==
    [][\A p \in ChainProcs :
          (CanHandleStep(p) /\ ctype[p] \notin supported_types(solver[cur[p]])) =>
              /\ DelegatedLikeNone(p)
              /\ log'[p] = Append(log[p], Entry(cur[p], "cannot_handle", <<>>))
              /\ cb' = cb /\ lock' = lock /\ config' = config
              /\ fres'[p] = NoOutcome /\ callOut'[p] = NoOutcome
              /\ recorded'[p] = <<>>]_vars

\* C12 witness: the request has passed a handler that cannot handle its
\* kind and whose breaker is OPEN with the timeout elapsed.
C12_Witness ==
    \E p \in ChainProcs :
        /\ pc[p] = "done"
        /\ log[p] # <<>>
        /\ log[p][1].ev = "cannot_handle"
        /\ cb[log[p][1].h].state = OPEN
        /\ SinceFailure(cb[log[p][1].h]) >= config[log[p][1].h].recovery_timeout

\* C13: within a solve request a solver's solve() is called (p is inside
\* circuit_breaker.call, or the log holds the call's outcome) only at a
\* handler whose solver lists the kind; when no handler of the chain lists
\* it, the request ends with None, every handler was passed without a call
\* and no solve() has run.
C13_SolveOnlyIfCanHandle ==
    \A p \in ChainProcs :
        /\ pc[p] \in {"call", "admit", "func", "record", "recording", "call_done"} =>
              ctype[p] \in supported_types(solver[cur[p]])
        /\ \A i \in 1..Len(log[p]) :
              log[p][i].ev # "cannot_handle" =>
                  ctype[p] \in supported_types(solver[log[p][i].h])
        /\ (/\ pc[p] = "done"
            /\ \A i \in 1..Len(handlers) :
                  ctype[p] \notin supported_types(solver[handlers[i]])) =>
              /\ result[p] = ReturnsNone
              /\ \A i \in 1..Len(log[p]) : log[p][i].ev = "cannot_handle"
              /\ fres[p] = NoOutcome /\ recorded[p] = <<>>

\* C13 witness: a request of a kind that neither of two handlers lists has
\* ended with None.
C13_Witness ==
    \E p \in ChainProcs :
        /\ pc[p] = "done"
        /\ Len(log[p]) = 2 /\ Len(handlers) = 2
        /\ \A i \in 1..2 : ctype[p] \notin supported_types(solver[handlers[i]])
        /\ result[p] = ReturnsNone

\* C14 as stated: every non-None value returned through the breaker, the
\* empty string included, is returned by handle() at once and ends the
\* request.
C14_Original_AnyStringEndsRequest ==
    [][\A p \in ChainProcs :
          (/\ pc[p] = "call_done" /\ pc'[p] # "call_done"
           /\ callOut[p].t = "return" /\ callOut[p].v # <<>>) =>
              pc'[p] = "done" /\ result'[p] = callOut[p]]_vars

\* C14 amended: a non-empty string returned through the breaker is returned
\* by handle() at once: the request ends with that value and reaches no
\* later handler; the empty string is taken as no solution: the call is
\* recorded as a success and the request is delegated as for None.
C14_NonEmptyStringEndsRequest ==
    [][\A p \in ChainProcs :
          /\ (/\ pc[p] = "call_done" /\ pc'[p] # "call_done"
              /\ callOut[p].t = "return" /\ callOut[p].v # <<>>) =>
                IF callOut[p].v[1] # ""
                THEN /\ pc'[p] = "done" /\ result'[p] = callOut[p]
                     /\ cur'[p] = cur[p]
                     /\ log'[p] = Append(log[p], Entry(cur[p], "returned", callOut[p].v))
                ELSE /\ DelegatedLikeNone(p)
                     /\ recorded[p] = <<"success">>
                     /\ log'[p] = Append(log[p], Entry(cur[p], "returned", <<"">>))
          /\ pc[p] = "done" =>
                /\ pc'[p] \in {"done", "idle"}
                /\ pc'[p] = "done" =>
                      /\ result'[p] = result[p] /\ log'[p] = log[p]
                      /\ fres'[p] = fres[p]
                      /\ \A b \in Breakers : cb'[b] = cb[b]]_vars

\* C14 witness: the first handler's solver returned the empty string, the
\* request went on and ended with the second handler's token.
C14_Witness ==
    \E p \in ChainProcs :
        /\ pc[p] = "done"
        /\ Len(log[p]) = 2
        /\ log[p][1] = Entry(handlers[1], "returned", <<"">>)
        /\ log[p][2].ev = "returned"
        /\ log[p][2].v = <<SolverToken(solver[handlers[2]])>>
        /\ result[p] = [t |-> "return", v |-> log[p][2].v]

\* the step in which p's call() invokes the solver's solve()
InvokeStep(p) == pc[p] = "admit" /\ pc'[p] = "func"

\* the entries of p's log that stand for a call of solve() at handler h
Invocations(p, h) ==
    {i \in 1..Len(log[p]) : log[p][i].h = h /\ log[p][i].ev \in {"returned", "raised"}}

\* C15: a None returned by an applicable handler's solver sends the request
\* on to the next handler (or ends it with None); within one request no
\* handler is visited twice and solve() is invoked at a handler only if it
\* has not been invoked there before; every handler reached that lists the
\* kind and whose breaker admits the call has its solve() invoked, once.
C15_NoneDelegatesEachSolverOnce ==
    /\ [](\A p \in ChainProcs :
            /\ \A i, j \in 1..Len(log[p]) : log[p][i].h = log[p][j].h => i = j
            /\ pc[p] \in {"handle", "call", "admit", "func", "record",
                          "recording", "call_done"} =>
                  \A i \in 1..Len(log[p]) : log[p][i].h # cur[p]
            /\ \A h \in Breakers : Cardinality(Invocations(p, h)) <= 1)
    /\ [][\A p \in ChainProcs :
            /\ HandlerTakes(p, ReturnsNone) =>
                  /\ DelegatedLikeNone(p)
                  /\ log'[p] = Append(log[p], Entry(cur[p], "returned", <<>>))
            /\ InvokeStep(p) =>
                  /\ Invocations(p, cur[p]) = {}
                  /\ fres[p] = NoOutcome
            /\ (CanHandleStep(p) /\ ctype[p] \in supported_types(solver[cur[p]])) =>
                  pc'[p] = "call"
            /\ (AdmissionStep(p) /\ ~Rejected(p)') => InvokeStep(p)
            /\ (pc[p] = "func" /\ pc'[p] # "func") =>
                  fres'[p] \in SolverOutcomes(solver[cur[p]])
            /\ (pc[p] = "call_done" /\ pc'[p] # "call_done" /\ fres[p] # NoOutcome) =>
                  {i \in 1..Len(log'[p]) :
                      /\ log'[p][i].h = cur[p]
                      /\ log'[p][i].ev \in {"returned", "raised"}} = {Len(log[p]) + 1}]_vars

\* C15 witness: two different handlers, A's solver returned None and
\* recorded a success, B's returned the solution the request ends with;
\* one invocation of each.
C15_Witness ==
    \E p \in ChainProcs :
        /\ pc[p] = "done"
        /\ Len(log[p]) = 2
        /\ log[p][1].h # log[p][2].h
        /\ log[p][1] = Entry(handlers[1], "returned", <<>>)
        /\ Cardinality(Invocations(p, handlers[1])) = 1
        /\ Cardinality(Invocations(p, handlers[2])) = 1
        /\ cb[handlers[1]].consecutive_failures = 0
        /\ result[p] = [t |-> "return", v |-> <<SolverToken(solver[handlers[2]])>>]

\* the step of call() a coroutine inside a critical section takes next
CriticalSection(p) == CallAdmit(p) \/ RecordSuccess(p) \/ RecordFailure(p)

\* C16: a call() suspended inside its wrapped function does not hold the
\* breaker's lock; the lock is held only by a coroutine inside the
\* admission check or the recording of an outcome, whose step never
\* waits; so a call() that wants the lock either takes it at once or waits
\* for such a bookkeeping step only, never for a function to finish, and a
\* function may end whatever the other calls are doing.
C16_LockNotHeldAcrossFunction ==
    /\ \A p \in Procs : pc[p] = "func" => lock[cur[p]] # p
    /\ \A b \in Breakers :
          lock[b] # 0 =>
              /\ pc[lock[b]] \in {"admit", "recording"}
              /\ cur[lock[b]] = b
              /\ ENABLED CriticalSection(lock[b])
    /\ \A q \in Procs :
          /\ (pc[q] = "call" /\ lock[cur[q]] = 0) => ENABLED CallLock(q)
          /\ (pc[q] = "record" /\ lock[cur[q]] = 0) => ENABLED RecordLock(q)
          /\ pc[q] = "func" => ENABLED FuncEnd(q)

\* C16 witness: while one call is inside its function, another call's
\* failure has just been recorded and has opened the breaker.
C16_Witness ==
    \E p, q \in Procs :
        /\ p # q
        /\ pc[p] = "func"
        /\ pc[q] = "call_done" /\ recorded[q] = <<"failure">>
        /\ cb[1].state = OPEN
        /\ cb[1].last_state_change = now
        /\ cb[1].last_failure_time = <<now>>
        /\ now > 0

\* C17: failure_count starts at 0; every failure recorded, in any state and
\* under any interleaving, adds exactly one to it; it changes in no other
\* step except that entering CLOSED sets it to 0.  So it is the number of
\* failures recorded since the breaker last entered CLOSED (or since
\* construction).
C17_NoLostFailureCount ==
    /\ \A b \in Breakers : cb[b].failure_count = 0
    /\ [][\A b \in Breakers :
            /\ \A p \in Procs :
                  (FailureStep(p) /\ cur[p] = b) =>
                      cb'[b].failure_count = cb[b].failure_count + 1
            /\ (\A p \in Procs : ~(FailureStep(p) /\ cur[p] = b)) =>
                  \/ cb'[b].failure_count = cb[b].failure_count
                  \/ /\ cb[b].state # CLOSED /\ cb'[b].state = CLOSED
                     /\ cb'[b].failure_count = 0]_vars

\* C17 witness: the failures of NumProcs calls, all counted, on a breaker
\* that is still CLOSED.
C17_Witness ==
    /\ cb[1].state = CLOSED
    /\ cb[1].failure_count = NumProcs
    /\ cb[1].last_state_change = 0
    /\ \A p \in Procs : pc[p] = "call_done" /\ recorded[p] = <<"failure">>

\* the step in which CircuitBreaker.get_status() is called on the breaker b
GetStatusStep(b) ==
    /\ status' # NoStatus
    /\ status'[1].of = "breaker"
    /\ status'[1].b = b

\* C18 as stated: the snapshot is read under the breaker's lock (the lock
\* is held, by the reader and so by none of the callers, in the step that
\* reads the fields), and its fields are the breaker's fields.
C18_Original_SnapshotUnderLock ==
    [][\A b \in Breakers :
          GetStatusStep(b) =>
              /\ lock[b] \notin Procs \cup {0}
              /\ status'[1].v.state = cb[b].state
              /\ status'[1].v.failure_count = cb[b].failure_count]_vars

\* C18 amended: get_status() takes no lock (it leaves the lock as it finds
\* it, free or held), and its snapshot is not torn all the same: the
\* method is synchronous, so every field of the snapshot is the breaker's
\* field at the one instant of the call, and the fields agree with each
\* other as the fields of one record do.
C18_SnapshotNotTornWithoutLock ==
    /\ [](status # NoStatus /\ status[1].of = "breaker" =>
            LET v == status[1].v
                s == cb[status[1].b]
                c == config[status[1].b]
            IN  /\ v.name = "test_service"
                /\ v.state = s.state
                /\ v.failure_count = s.failure_count
                /\ v.success_count = s.success_count
                /\ v.consecutive_failures = s.consecutive_failures
                /\ v.last_failure_time =
                      (IF s.last_failure_time = <<>> THEN <<>>
                       ELSE <<[iso |-> s.last_failure_time[1]]>>)
                /\ v.last_state_change = [iso |-> s.last_state_change]
                /\ v.consecutive_failures <= v.failure_count
                /\ v.state = OPEN => v.last_failure_time # <<>>
                /\ v.state = CLOSED =>
                      /\ v.failure_count < c.failure_threshold
                      /\ v.consecutive_failures < c.max_consecutive_failures
                /\ v.state = HALF_OPEN => v.success_count < c.success_threshold)
    /\ [][\A b \in Breakers :
            GetStatusStep(b) => lock' = lock /\ cb' = cb /\ pc' = pc]_vars

\* C18 witness: a snapshot of a HALF_OPEN breaker that has counted a trial
\* success, taken while another call is inside its function.
C18_Witness ==
    /\ status # NoStatus
    /\ status[1].of = "breaker"
    /\ status[1].v.state = HALF_OPEN
    /\ status[1].v.success_count = 1
    /\ status[1].v.failure_count >= 2
    /\ \E p \in Procs : pc[p] = "func"

\* the step in which CaptchaChain.get_status() is called
ChainStatusStep == status' # NoStatus /\ status'[1].of = "chain"

\* C19: a call of CaptchaChain.get_status(), which calls
\* CircuitBreaker.get_status() on every handler's breaker, changes nothing:
\* every breaker's record (state, counters, timestamps), lock and config,
\* the handler list and its links, and every request in progress are as
\* before; an OPEN breaker whose timeout has elapsed is still OPEN.
C19_GetStatusReadOnly ==
    [][ChainStatusStep =>
          /\ cb' = cb /\ lock' = lock /\ config' = config
          /\ handlers' = handlers /\ next_handler' = next_handler
          /\ first_handler' = first_handler /\ solver' = solver
          /\ now' = now
          /\ UNCHANGED procVars
          /\ \A b \in Breakers :
                (cb[b].state = OPEN /\ should_attempt_reset(cb[b], config[b], now)) =>
                    cb'[b].state = OPEN]_vars

\* C19 witness: the status just read shows OPEN for a breaker whose
\* recovery timeout has elapsed, and the breaker is OPEN.
C19_Witness ==
    /\ status # NoStatus
    /\ status[1].of = "chain"
    /\ \E i \in 1..Len(handlers) :
          /\ status[1].v[i].state = OPEN
          /\ cb[handlers[i]].state = OPEN
          /\ SinceFailure(cb[handlers[i]]) >= config[handlers[i]].recovery_timeout

RequestStart(p) == pc[p] = "idle" /\ pc'[p] # "idle"
RequestEnd(p) == pc[p] = "done" /\ pc'[p] = "idle"

\* C21: a handler's breaker keeps its history from one solve request to the
\* next: issuing a request and taking its result leave every breaker as it
\* is, so a breaker with max_consecutive_failures consecutive failures is
\* not CLOSED when the next request comes; a request that reaches an OPEN
\* breaker before recovery_timeout has elapsed is rejected without the
\* solver being invoked, and when a later handler produces a solution the
\* request returns it.
C21_BreakerHistoryPersists ==
    /\ [](\A h \in Breakers :
            /\ cb[h].consecutive_failures >= config[h].max_consecutive_failures =>
                  cb[h].state # CLOSED
            /\ \A p \in ChainProcs :
                  (pc[p] \in {"func", "record", "recording"} /\ cur[p] = h) =>
                      cb[h].state # OPEN)
    /\ [](\A p \in ChainProcs :
            (/\ pc[p] = "done"
             /\ Len(log[p]) >= 2
             /\ log[p][1].ev = "breaker_open"
             /\ Produced(log[p][Len(log[p])])) =>
                result[p] = [t |-> "return", v |-> log[p][Len(log[p])].v])
    /\ [][\A p \in ChainProcs :
            /\ (RequestStart(p) \/ RequestEnd(p)) =>
                  \A b \in Breakers : cb'[b] = cb[b]
            /\ (/\ AdmissionStep(p)
                /\ cb[cur[p]].state = OPEN
                /\ SinceFailure(cb[cur[p]]) < config[cur[p]].recovery_timeout) =>
                  /\ Rejected(p)'
                  /\ fres'[p] = NoOutcome /\ recorded'[p] = <<>>
                  /\ cb' = cb]_vars

\* C21 witness: the third request on a chain of two handlers: the first
\* handler's solver raised in the two requests before, its breaker rejected
\* this one, and the second handler's solution is the result.
C21_Witness ==
    \E p \in ChainProcs :
        /\ pc[p] = "done"
        /\ nreq = 3
        /\ Len(log[p]) = 2
        /\ log[p][1].ev = "breaker_open"
        /\ cb[log[p][1].h].state = OPEN
        /\ cb[log[p][1].h].failure_count = 2
        /\ cb[log[p][1].h].consecutive_failures =
              config[log[p][1].h].max_consecutive_failures
        /\ SinceFailure(cb[log[p][1].h]) < config[log[p][1].h].recovery_timeout
        /\ Produced(log[p][2])
        /\ result[p] = [t |-> "return", v |-> log[p][2].v]

\* C22: every add_solver call adds a breaker of its own, new and CLOSED,
\* and leaves the others; a step of a solve request changes the breaker
\* (record or lock) of no handler but the one the request is at, and that
\* one only in the admission check and in recording the solver's outcome;
\* no step changes a handler's config. This holds for handlers whose
\* solvers are of one class and whose configs are equal.
C22_BreakersAreIndependent ==
    [][/\ \A b \in Breakers :
            /\ config'[b] = config[b]
            /\ cb'[b] # cb[b] =>
                  \E p \in ChainProcs :
                      /\ cur[p] = b
                      /\ AdmissionStep(p) \/ FailureStep(p) \/ SuccessStep(p)
            /\ lock'[b] # lock[b] =>
                  \E p \in ChainProcs :
                      /\ cur[p] = b
                      /\ pc[p] \in {"call", "admit", "record", "recording"}
       /\ Len(cb') # Len(cb) =>
            /\ handlers' # handlers
            /\ Len(cb') = Len(cb) + 1
            /\ cb'[Len(cb')] = CircuitBreakerState(now)
            /\ lock'[Len(cb')] = 0]_vars

\* C22 witness: two handlers with solvers of one class and equal configs;
\* the first one's solver has raised in two requests and its breaker is
\* OPEN, the second one's has answered both and its breaker has no failure.
C22_Witness ==
    \E p \in ChainProcs :
        /\ pc[p] = "done"
        /\ Len(handlers) = 2
        /\ solver[handlers[1]] = solver[handlers[2]]
        /\ config[handlers[1]] = config[handlers[2]]
        /\ Len(log[p]) = 2
        /\ log[p][1] = Entry(handlers[1], "raised", <<>>)
        /\ log[p][2].h = handlers[2] /\ log[p][2].ev = "returned"
        /\ cb[handlers[1]].state = OPEN
        /\ cb[handlers[1]].failure_count = 2
        /\ cb[handlers[2]].state = CLOSED
        /\ cb[handlers[2]].failure_count = 0
        /\ cb[handlers[2]].last_failure_time = <<>>

\* C23: failure_count goes down only in a step that takes the breaker to
\* CLOSED, and then to 0. A success recorded in CLOSED changes
\* consecutive_failures (to 0) and nothing else; the transition from OPEN
\* to HALF_OPEN changes state, success_count (to 0) and last_state_change
\* and nothing else. A failure recorded in CLOSED that brings failure_count
\* to failure_threshold opens the breaker whatever consecutive_failures is.
C23_FailureCountOnlyResetByClosing ==
    [][\A b \in Breakers :
          /\ cb'[b].failure_count < cb[b].failure_count =>
                /\ cb[b].state # CLOSED /\ cb'[b].state = CLOSED
                /\ cb'[b].failure_count = 0
          /\ \A p \in Procs :
                /\ (SuccessStep(p) /\ cur[p] = b /\ cb[b].state = CLOSED) =>
                      cb'[b] = [cb[b] EXCEPT !.consecutive_failures = 0]
                /\ (/\ FailureStep(p) /\ cur[p] = b /\ cb[b].state = CLOSED
                    /\ cb[b].failure_count + 1 >= config[b].failure_threshold) =>
                      /\ cb'[b].state = OPEN
                      /\ cb'[b].failure_count = cb[b].failure_count + 1
          /\ (cb[b].state = OPEN /\ cb'[b].state = HALF_OPEN) =>
                cb'[b] = [cb[b] EXCEPT !.state = HALF_OPEN,
                                       !.success_count = 0,
                                       !.last_state_change = now]]_vars

\* C23 witness: the breaker is OPEN with failure_count above
\* failure_threshold and consecutive_failures below
\* max_consecutive_failures: the failures that opened it were separated by
\* successes, and a failed trial has added to the count since.
C23_Witness ==
    \E b \in Breakers :
        /\ cb[b].state = OPEN
        /\ cb[b].failure_count > config[b].failure_threshold
        /\ cb[b].consecutive_failures < config[b].max_consecutive_failures
        /\ cb[b].success_count = 0

\* a call's function has raised (the outcome is kept until the caller has
\* taken it)
BackendFailed == \E p \in LiveProcs : fres[p].t = "raise"

\* a late failure has moved the earliest trial past the clock's last instant
TrialPastHorizon ==
    /\ cb[1].last_failure_time # <<>>
    /\ cb[1].last_failure_time[1] + config[1].recovery_timeout > MaxTime

\* C24: an OPEN breaker has last_failure_time set. While callers keep
\* calling, time passes and the calls in flight end, an OPEN breaker gets
\* to HALF_OPEN (unless a late failure moves the trial past the clock's
\* last instant), and a HALF_OPEN breaker gets to CLOSED unless a call's
\* function raises; the breaker leaves HALF_OPEN for OPEN only by recording
\* a failure.
C24_OpenBreakerRecovers ==
    /\ [](cb[1].state = OPEN => cb[1].last_failure_time # <<>>)
    /\ [][(cb[1].state = HALF_OPEN /\ cb'[1].state = OPEN) =>
            \E p \in LiveProcs : FailureStep(p)]_vars
    /\ (cb[1].state = OPEN) ~> (cb[1].state = HALF_OPEN \/ TrialPastHorizon)
    /\ (cb[1].state = HALF_OPEN) ~> (cb[1].state = CLOSED \/ BackendFailed)

\* C24 witness: the breaker has been OPEN and is CLOSED again: the trial
\* calls succeeded and the last of them has been taken by its caller.
C24_Witness ==
    /\ cb[1].state = CLOSED
    /\ cb[1].last_failure_time # <<>>
    /\ cb[1].success_count = config[1].success_threshold
    /\ cb[1].last_state_change >=
          cb[1].last_failure_time[1] + config[1].recovery_timeout
    /\ \A p \in Procs : pc[p] = "idle"

\* the step in which p's call() records the outcome of a function that
\* returned None
RecordsNone(p) ==
    pc[p] = "recording" /\ fres[p] = ReturnsNone /\ pc'[p] # "recording"

\* C25: a solver's solve that returns None is recorded as a success:
\* call() returns the None, consecutive_failures becomes 0, failure_count
\* does not grow, last_failure_time stays, and in HALF_OPEN success_count
\* grows by one and the breaker closes when it reaches success_threshold;
\* in CLOSED and in OPEN the state stays. A breaker opens only in a step
\* that records a raised error, so None returns never open it.
C25_NoneIsRecordedAsSuccess ==
    [][/\ \A p \in Procs :
            RecordsNone(p) =>
                LET s == cb[cur[p]]
                    s2 == cb'[cur[p]]
                    c == config[cur[p]]
                IN  /\ recorded'[p] = <<"success">>
                    /\ callOut'[p] = ReturnsNone
                    /\ s2.consecutive_failures = 0
                    /\ s2.failure_count <= s.failure_count
                    /\ s2.last_failure_time = s.last_failure_time
                    /\ s.state = HALF_OPEN =>
                          /\ s2.success_count = s.success_count + 1
                          /\ s2.state = (IF s.success_count + 1 >= c.success_threshold
                                         THEN CLOSED ELSE HALF_OPEN)
                    /\ s.state # HALF_OPEN =>
                          /\ s2.state = s.state
                          /\ s2.failure_count = s.failure_count
       /\ \A b \in Breakers :
            (cb[b].state # OPEN /\ cb'[b].state = OPEN) =>
                \E p \in Procs : FailureStep(p) /\ fres[p].t = "raise"]_vars

\* C25 witness: a solver's None has just closed a HALF_OPEN breaker: the
\* call returned None, was recorded as a success, and success_count has
\* reached success_threshold.
C25_Witness ==
    /\ pc[1] = "call_done"
    /\ func[1] = "solve"
    /\ fres[1] = ReturnsNone /\ callOut[1] = ReturnsNone
    /\ recorded[1] = <<"success">>
    /\ cb[1].state = CLOSED
    /\ cb[1].last_failure_time # <<>>
    /\ cb[1].last_state_change = now
    /\ cb[1].success_count = config[1].success_threshold

\* C26: whenever a breaker is CLOSED, failure_count is below
\* failure_threshold and consecutive_failures is below
\* max_consecutive_failures, whatever the interleaving of the callers.
C26_ClosedBelowThresholds ==
    \A b \in Breakers :
        cb[b].state = CLOSED =>
            /\ cb[b].failure_count < config[b].failure_threshold
            /\ cb[b].consecutive_failures < config[b].max_consecutive_failures

\* C26 witness: the breaker is CLOSED one failure short of
\* failure_threshold, and the functions of two concurrent calls have both
\* raised and are about to be recorded.
C26_Witness ==
    /\ cb[1].state = CLOSED
    /\ cb[1].failure_count = config[1].failure_threshold - 1
    /\ cb[1].consecutive_failures >= 1
    /\ \A p \in {1, 2} : pc[p] = "record" /\ fres[p].t = "raise"

\* C27: in every state of every breaker
\* 0 <= consecutive_failures <= failure_count.
C27_ConsecutiveWithinTotal ==
    \A b \in Breakers :
        /\ 0 <= cb[b].consecutive_failures
        /\ cb[b].consecutive_failures <= cb[b].failure_count

\* C27 witness: a HALF_OPEN breaker whose failures were separated by a
\* success: consecutive_failures is positive and below failure_count.
C27_Witness ==
    /\ cb[1].state = HALF_OPEN
    /\ cb[1].consecutive_failures >= 1
    /\ cb[1].consecutive_failures < cb[1].failure_count

\* C28: a failure recorded while the breaker is OPEN adds one to
\* failure_count and to consecutive_failures and sets last_failure_time to
\* the time of the recording; state stays OPEN, last_state_change and
\* success_count stay. A call whose admission check then runs less than
\* recovery_timeout after that failure is rejected and leaves the breaker
\* OPEN, however long ago the breaker opened.
C28_LateFailurePostponesTrial ==
    [][\A p \in Procs :
          LET s == cb[cur[p]]
          IN  /\ (FailureStep(p) /\ s.state = OPEN) =>
                    cb'[cur[p]] = [s EXCEPT !.failure_count = @ + 1,
                                            !.consecutive_failures = @ + 1,
                                            !.last_failure_time = <<now>>]
              /\ (/\ AdmissionStep(p)
                  /\ s.state = OPEN
                  /\ s.last_failure_time[1] > s.last_state_change
                  /\ now - s.last_failure_time[1] < config[cur[p]].recovery_timeout) =>
                    Rejected(p)' /\ cb' = cb]_vars

\* C28 witness: a failure has been recorded after the breaker opened, by a
\* call admitted before; a later call is at its admission check when
\* recovery_timeout has elapsed since the breaker opened but not since that
\* late failure: it is about to be rejected.
C28_Witness ==
    \E p \in Procs :
        /\ pc[p] = "admit"
        /\ cb[1].state = OPEN
        /\ cb[1].last_failure_time[1] > cb[1].last_state_change
        /\ cb[1].failure_count > config[1].max_consecutive_failures
        /\ now - cb[1].last_state_change >= config[1].recovery_timeout
        /\ now - cb[1].last_failure_time[1] < config[1].recovery_timeout
        /\ rejects(cb[1], config[1], now)

\* C29 as stated: a success reported by a call that was admitted before the
\* current HALF_OPEN period does not count toward success_threshold: the
\* slow call was admitted by the new breaker, so recording its success in
\* HALF_OPEN leaves success_count and the state.
C29_Original_StaleSuccessNotCounted ==
    [][(SuccessStep(SlowCaller) /\ cb[1].state = HALF_OPEN) =>
          /\ cb'[1].success_count = cb[1].success_count
          /\ cb'[1].state = HALF_OPEN]_vars

\* C29: the breaker moves from HALF_OPEN to CLOSED only in a step that
\* records a success and brings success_count, the successes recorded
\* while HALF_OPEN in the current period, to success_threshold. Every
\* success recorded while HALF_OPEN counts, whenever its call was
\* admitted: that of the slow call, admitted while the breaker was CLOSED,
\* adds one to success_count as that of a trial call does, and closes the
\* breaker when the threshold is reached.
C29_SuccessesRecordedInHalfOpenCount ==
    [][/\ (cb[1].state = HALF_OPEN /\ cb'[1].state = CLOSED) =>
            \E p \in {SlowCaller, LaterCaller} :
                /\ SuccessStep(p)
                /\ cb[1].success_count + 1 >= config[1].success_threshold
       /\ (cb[1].state = OPEN /\ cb'[1].state = HALF_OPEN) =>
            cb'[1].success_count = 0
       /\ \A p \in {SlowCaller, LaterCaller} :
            (SuccessStep(p) /\ cb[1].state = HALF_OPEN) =>
                /\ cb'[1].success_count = cb[1].success_count + 1
                /\ cb'[1].state =
                      (IF cb[1].success_count + 1 >= config[1].success_threshold
                       THEN CLOSED ELSE HALF_OPEN)]_vars

\* C29 witness: the slow call, admitted before the breaker ever opened,
\* has returned and is recording its success under the lock; the breaker
\* is HALF_OPEN one success short of success_threshold and the later
\* caller's trial call is still running: the stale success is the one that
\* closes the breaker.
C29_Witness ==
    /\ pc[SlowCaller] = "recording"
    /\ fres[SlowCaller].t = "return"
    /\ pc[LaterCaller] = "func"
    /\ cb[1].state = HALF_OPEN
    /\ cb[1].success_count + 1 = config[1].success_threshold
    /\ record_success(cb[1], config[1], now).state = CLOSED

\* C30: every solve request ends: a request that has reached a handler
\* gets its result, a non-empty solution or None, never a raised error.
\* On the way it is never blocked: whenever it is under way one of its own
\* steps is enabled, the breaker's lock is free when it comes to take it,
\* and a rejection ends the call in the admission step. It passes the
\* handlers in list order, each at most once.
C30_SolveTerminates ==
    /\ \A p \in ChainProcs : (pc[p] = "handle") ~> (pc[p] = "done")
    /\ [](\A p \in ChainProcs :
            /\ pc[p] \notin {"idle", "done"} => ENABLED RequestStep(p)
            /\ pc[p] \in {"call", "record"} => lock[cur[p]] = 0
            /\ pc[p] = "done" =>
                  /\ result[p].t = "return"
                  /\ result[p].v = <<>> \/ Truthy(result[p].v)
            /\ Len(log[p]) <= Len(handlers)
            /\ \A i \in 1..Len(log[p]) : log[p][i].h = handlers[i]
            /\ pc[p] \notin {"idle", "done"} =>
                  /\ Len(log[p]) < Len(handlers)
                  /\ cur[p] = handlers[Len(log[p]) + 1])
    /\ [][\A p \in ChainProcs :
            (AdmissionStep(p) /\ rejects(cb[cur[p]], config[cur[p]], now)) =>
                pc'[p] = "call_done" /\ lock'[cur[p]] = 0]_vars

\* C30 witness: the third request on a chain of two handlers has ended
\* with None: the first handler's breaker rejected it at once and the
\* second handler's solver raised.
C30_Witness ==
    \E p \in ChainProcs :
        /\ pc[p] = "done"
        /\ result[p] = ReturnsNone
        /\ Len(handlers) = 2
        /\ Len(log[p]) = 2
        /\ log[p][1] = Entry(handlers[1], "breaker_open", <<>>)
        /\ log[p][2] = Entry(handlers[2], "raised", <<>>)
        /\ \A h \in Breakers : lock[h] = 0

====
